---------------------------- MODULE Spec2Model ----------------------------
(***************************************************************************)
(* A model of cparser (src/src/main.rs): the Tokenizer, the statement      *)
(* segmenter and classifier of parse / parse_statement, and the resolver   *)
(* lookup driven by main.                                                  *)
(*                                                                         *)
(* Three state machines share the module:                                  *)
(*   TokSpec     Tokenizer::next over a text of characters                 *)
(*   ParseSpec   the for-loop of parse over the token stream, calling      *)
(*               parse_statement, which fills the catalog `types`          *)
(*   LookupSpec  main after parse returned: seeding, then lookup for       *)
(*               every key, the recursion kept as an explicit call stack   *)
(* Characters are one-character strings, tokens of ParseSpec are strings.  *)
(***************************************************************************)
EXTENDS Naturals, Integers, Sequences, FiniteSets, TLC

VARIABLES
    \* Tokenizer (main.rs 15-20)
    line,        \* the text, a sequence of characters
    last,        \* start of the current slice (0-based, as in the source)
    pos,         \* scan position (0-based)
    tokens,      \* the slices yielded so far, as [last, pos] pairs
    tkState,     \* "scan" | "end" (next returned None) | "abort" (panic)
    \* parse (main.rs 375-404)
    input,       \* the token stream the tokenizer yields
    consumed,    \* how many tokens the for-loop has taken
    balance,
    statement,
    produced,    \* the statements handed to parse_statement, in order
    psState,     \* "loop" | "returned" | "abort" | "idle"
    \* main / lookup (main.rs 408-473)
    types,       \* the catalog: HashMap<String, Stmt>
    known,       \* the visited set
    out,         \* what lookup printed, one event per declaration/diagnostic
    stack,       \* the call stack of lookup
    iterated,    \* keys the loop of main has already taken
    result,      \* the value the last returning lookup call returned
    passes,      \* lookup calls that passed the visited check
    pc           \* "seed" | "keys" | "done" | "idle"

tokVars    == <<line, last, pos, tokens, tkState>>
parseVars  == <<input, consumed, balance, statement, produced, psState>>
lookupVars == <<known, out, stack, iterated, result, passes, pc>>
vars       == <<tokVars, parseVars, types, lookupVars>>

None   == "<none>"
NoDims == "<nodims>"

\* ------------------------------------------------------------------------
\* Generic helpers
\* ------------------------------------------------------------------------
Front(s)   == SubSeq(s, 1, Len(s) - 1)
Range(s)   == {s[i] : i \in 1..Len(s)}

\* slice s[a..b) with 0-based bounds, as Rust's &s[a..b]
Slice(s, a, b) == SubSeq(s, a + 1, b)

\* ------------------------------------------------------------------------
\* The catalog (Stmt, Member, Value: main.rs 192-209)
\* ------------------------------------------------------------------------
Alias(a)   == [kind |-> "Alias",  alias |-> a,    values |-> <<>>, members |-> <<>>]
Enum(vs)   == [kind |-> "Enum",   alias |-> None, values |-> vs,   members |-> <<>>]
Struct(ms) == [kind |-> "Struct", alias |-> None, values |-> <<>>, members |-> ms]

Member(i, t, d) == [ident |-> i, type_ |-> t, dims |-> d]
Value(i, v)     == [ident |-> i, value |-> v]

\* KNONW_ALIASES, cut to its first entry: the other four are inserted and
\* looked up the same way.
KNONW_ALIASES == << <<"uint32_T", "u32">> >>

Seeded(t) ==
    LET seedKeys == {KNONW_ALIASES[i][1] : i \in 1..Len(KNONW_ALIASES)}
        aliasOf(k) == (CHOOSE i \in 1..Len(KNONW_ALIASES) : KNONW_ALIASES[i][1] = k)
    IN [k \in DOMAIN t \cup seedKeys |->
          IF k \in seedKeys THEN Alias(KNONW_ALIASES[aliasOf(k)][2]) ELSE t[k]]

TokIdle ==
    /\ line = <<>>
    /\ last = 0
    /\ pos = 0
    /\ tokens = <<>>
    /\ tkState = "idle"

ParseIdle ==
    /\ input = <<>>
    /\ consumed = 0
    /\ balance = 0
    /\ statement = <<>>
    /\ produced = <<>>
    /\ psState = "idle"

\* ------------------------------------------------------------------------
\* Tokenizer (main.rs 8-190)
\* ------------------------------------------------------------------------
MaxOpLen  == 4    \* length of the operator texts
MaxLitLen == 5    \* length of the literal texts

Lower  == {"a","b","c","d","e","f","g","h","i","j","k","l","m",
           "n","o","p","q","r","s","t","u","v","w","x","y","z"}
Upper  == {"A","B","C","D","E","F","G","H","I","J","K","L","M",
           "N","O","P","Q","R","S","T","U","V","W","X","Y","Z"}
Digits == {"0","1","2","3","4","5","6","7","8","9"}

\* is_whitespace
is_whitespace(b) == b \in {" ", "\t", "\r", "\n"}

\* the byte classes matched in identifier, number and next
IdentStart  == {"_"} \cup Lower \cup Upper
IdentChars  == IdentStart \cup Digits
NumberChars == Digits \cup {"."}
PunctChars  == {";", ",", "{", "}", "[", "]", "(", ")", "?", ":"}
AssignChars == {"*", "^", "!", "=", "/"}
DoubleChars == {"&", "|", "+"}
AngleChars  == {"<", ">"}

available(p) == p < Len(line)
current(p)   == IF available(p) THEN line[p + 1] ELSE None
peek(p)      == IF p + 1 < Len(line) THEN line[p + 2] ELSE None

\* what a scan returns: the position it stops at, and whether it panicked
Stop(p)  == [end |-> p, panic |-> FALSE]
Panic(p) == [end |-> p, panic |-> TRUE]

RECURSIVE skip_whitespace(_)
skip_whitespace(p) ==
    IF available(p) /\ is_whitespace(current(p)) THEN skip_whitespace(p + 1) ELSE p

RECURSIVE identifier(_)
identifier(p) ==
    IF available(p) /\ current(p) \in IdentChars THEN identifier(p + 1) ELSE Stop(p)

RECURSIVE number(_)
number(p) ==
    IF available(p) /\ current(p) \in NumberChars THEN number(p + 1) ELSE Stop(p)

\* the loop of character: the first arm that matches wins
RECURSIVE character(_, _)
character(p, mask) ==
    IF ~available(p) THEN Panic(p)
    ELSE CASE current(p) = "\\" -> character(p + 1, TRUE)
           [] current(p) # "\\" /\ mask -> character(p + 1, FALSE)
           [] current(p) # "\\" /\ ~mask /\ current(p) = "'" -> Stop(p + 1)
           [] OTHER -> character(p + 1, mask)

\* the loop of string
RECURSIVE string(_, _)
string(p, mask) ==
    IF ~available(p) THEN Panic(p)
    ELSE CASE current(p) = "\\" -> string(p + 1, TRUE)
           [] current(p) # "\\" /\ mask -> string(p + 1, FALSE)
           [] current(p) # "\\" /\ ~mask /\ current(p) = "\"" -> Stop(p + 1)
           [] OTHER -> string(p + 1, mask)

\* the arms of next, p the position after the first byte b
DotArm(p) ==
    IF current(p) = "." /\ peek(p) = "." THEN Stop(p + 2) ELSE Stop(p)

AssignArm(p) ==
    IF current(p) = "=" THEN Stop(p + 1) ELSE Stop(p)

DoubleArm(p, b) ==
    IF current(p) = "=" THEN Stop(p + 1)
    ELSE IF current(p) = b THEN Stop(p + 1)
    ELSE Stop(p)

AngleArmNoShiftAssign(p, b) ==
    IF current(p) = "=" THEN Stop(p + 1)
    ELSE IF current(p) = b THEN Stop(p + 1)
    ELSE Stop(p)
AngleArm(p, b) ==
    IF current(p) = "=" THEN Stop(p + 1)
    ELSE IF current(p) = b
         THEN (IF current(p + 1) = "=" THEN Stop(p + 2) ELSE Stop(p + 1))
    ELSE Stop(p)

MinusArm(p) ==
    IF current(p) \in {">", "-", "="} THEN Stop(p + 1) ELSE Stop(p)

\* the match of next on the byte b at position l; the byte is stepped over
\* first
Scan(l) ==
    LET b == line[l + 1]
        p == l + 1
    IN CASE b \in PunctChars  -> Stop(p)
         [] b = "."            -> DotArm(p)
         [] b \in AssignChars -> AssignArm(p)
         [] b \in DoubleChars -> DoubleArm(p, b)
         [] b \in AngleChars  -> AngleArm(p, b)
         [] b = "-"            -> MinusArm(p)
         [] b \in IdentStart  -> identifier(p)
         [] b \in Digits      -> number(p)
         [] b = "\""           -> string(p, FALSE)
         [] b = "'"            -> character(p, FALSE)
         [] OTHER              -> Panic(p)

\* next returns Some(slice)
TokenizerNext ==
    /\ tkState = "scan"
    /\ LET l == skip_whitespace(pos) IN
         /\ available(l)
         /\ ~Scan(l).panic
         /\ last' = l
         /\ pos' = Scan(l).end
         /\ tokens' = Append(tokens, [last |-> l, pos |-> Scan(l).end])
    /\ UNCHANGED <<line, tkState, parseVars, types, lookupVars>>

\* next returns None
TokenizerEnd ==
    /\ tkState = "scan"
    /\ LET l == skip_whitespace(pos) IN
         /\ ~available(l)
         /\ last' = l
         /\ pos' = l
    /\ tkState' = "end"
    /\ UNCHANGED <<line, tokens, parseVars, types, lookupVars>>

\* next reaches an unreachable!(): the process panics
TokenizerPanic ==
    /\ tkState = "scan"
    /\ LET l == skip_whitespace(pos) IN
         /\ available(l)
         /\ Scan(l).panic
         /\ last' = l
         /\ pos' = Scan(l).end
    /\ tkState' = "abort"
    /\ UNCHANGED <<line, tokens, parseVars, types, lookupVars>>

TokNext ==
    \/ TokenizerNext
    \/ TokenizerEnd
    \/ TokenizerPanic

\* the texts the tokenizer is run on
RECURSIVE Texts(_, _)
Texts(alphabet, n) ==
    IF n = 0 THEN {<<>>}
    ELSE LET shorter == Texts(alphabet, n - 1)
         IN shorter \cup {Append(t, c) : t \in {u \in shorter : Len(u) = n - 1}, c \in alphabet}

OpAlphabet  == {"a", "1", " ", ",", ".", "=", "&", "<", ">", "-"}
LitAlphabet == {"\"", "\\", "'", "a", ";", "%"}
Examples    == { <<"a", ",", "b">>,
                 <<"x", "-", ">", "y">>,
                 <<"a", "<", "<", "=", "b">>,
                 <<"a", "<", "b">>,
                 <<"a", "<", "<", "b">> }
\* the texts of at most n characters, by alphabet
OpTexts(n)  == Texts(OpAlphabet, n) \cup Examples
LitTexts(n) == Texts(LitAlphabet, n)

LookupIdle ==
    /\ known = {}
    /\ out = <<>>
    /\ stack = <<>>
    /\ iterated = {}
    /\ result = [name |-> None, value |-> TRUE, guard |-> FALSE]
    /\ passes = 0
    /\ pc = "idle"

TokInit ==
    /\ line \in OpTexts(MaxOpLen) \cup LitTexts(MaxLitLen)
    /\ last = 0
    /\ pos = 0
    /\ tokens = <<>>
    /\ tkState = "scan"
    /\ ParseIdle
    /\ types = <<>>
    /\ LookupIdle

TokSpec == TokInit /\ [][TokNext]_vars

\* ------------------------------------------------------------------------
\* The classifier: parse_statement and its recognizers (main.rs 212-355)
\* ------------------------------------------------------------------------
MaxSegLen  == 5    \* length of the free token streams
MaxBodyLen == 4    \* tokens in a struct body
MaxMidLen  == 4    \* tokens between typedef and ';'

\* [T]::join("~")
RECURSIVE join(_)
join(s) ==
    IF Len(s) = 0 THEN ""
    ELSE IF Len(s) = 1 THEN s[1]
    ELSE s[1] \o "~" \o join(Tail(s))

\* the 0-based index of the first element equal to x: iter().position(..);
\* NoPos stands for its None
NoPos == 0 - 1
RECURSIVE position(_, _)
position(s, x) ==
    IF Len(s) = 0 THEN NoPos
    ELSE IF s[1] = x THEN 0
    ELSE LET r == position(Tail(s), x) IN IF r = NoPos THEN NoPos ELSE r + 1

\* slice::split: the pieces between the separators, empty ones included
RECURSIVE split(_, _)
split(s, sep) ==
    LET p == position(s, sep)
    IN IF p = NoPos THEN <<s>>
       ELSE <<Slice(s, 0, p)>> \o split(Slice(s, p + 1, Len(s)), sep)

Some(v)  == [some |-> TRUE,  v |-> v,    panic |-> FALSE]
Nothing  == [some |-> FALSE, v |-> None, panic |-> FALSE]
\* an index underflow or a slice out of range: the thread panics
Panics   == [some |-> FALSE, v |-> None, panic |-> TRUE]

try_parse_struct(stmt) ==
    LET l == Len(stmt)
    IN IF l >= 3 /\ stmt[1] = "struct" /\ stmt[2] = "{" /\ stmt[l] = "}"
       THEN Some([tag |-> None, body |-> Slice(stmt, 2, l - 1)])
       ELSE IF l >= 4 /\ stmt[1] = "struct" /\ stmt[3] = "{" /\ stmt[l] = "}"
       THEN Some([tag |-> stmt[2], body |-> Slice(stmt, 3, l - 1)])
       ELSE Nothing

try_parse_member(stmt) ==
    LET l == Len(stmt)
        p == position(stmt, "[")
    IN IF l >= 1 /\ stmt[l] = "]"
       THEN IF p # NoPos
            THEN IF p = 0 THEN Panics
                 ELSE Some(Member(stmt[p], join(Slice(stmt, 0, p - 1)),
                                  join(Slice(stmt, p + 1, l - 1))))
            ELSE Nothing
       ELSE IF l = 0 THEN Nothing
       ELSE Some(Member(stmt[l], join(Slice(stmt, 0, l - 1)), NoDims))

\* filter_map(f).collect(), the panic of any call kept
RECURSIVE filter_map(_, _)
filter_map(rs, acc) ==
    IF Len(rs) = 0 THEN Some(acc)
    ELSE IF rs[1].panic THEN Panics
    ELSE filter_map(Tail(rs), IF rs[1].some THEN Append(acc, rs[1].v) ELSE acc)

parse_members(stmt) ==
    LET fields == split(stmt, ";")
    IN filter_map([i \in 1..Len(fields) |-> try_parse_member(fields[i])], <<>>)

try_parse_enum(stmt) ==
    LET l == Len(stmt)
    IN IF l >= 3 /\ stmt[1] = "enum" /\ stmt[2] = "{" /\ stmt[l] = "}"
       THEN Some([tag |-> None, body |-> Slice(stmt, 2, l - 1)])
       ELSE IF l >= 4 /\ stmt[1] = "enum" /\ stmt[3] = "{" /\ stmt[l] = "}"
       THEN Some([tag |-> stmt[2], body |-> Slice(stmt, 3, l - 1)])
       ELSE Nothing

try_parse_value(stmt) ==
    IF Len(stmt) >= 2 /\ stmt[2] = "="
    THEN Some(Value(stmt[1], join(Slice(stmt, 2, Len(stmt)))))
    ELSE IF Len(stmt) = 1 THEN Some(Value(stmt[1], None))
    ELSE Nothing

parse_values(stmt) ==
    LET fields == split(stmt, ",")
    IN filter_map([i \in 1..Len(fields) |-> try_parse_value(fields[i])], <<>>)

try_parse_typedef(stmt) ==
    LET l == Len(stmt)
    IN IF l >= 2 /\ stmt[1] = "typedef"
       THEN Some([name |-> stmt[l], typedef |-> Slice(stmt, 1, l - 1)])
       ELSE Nothing

try_parse_function(stmt) ==
    LET l == Len(stmt)
        p == position(stmt, "(")
    IN IF l >= 1 /\ stmt[l] = ")"
       THEN IF p # NoPos
            THEN IF p = 0 THEN Panics
                 ELSE Some([ret |-> Slice(stmt, 0, p - 1), name |-> stmt[p],
                            params |-> Slice(stmt, p + 1, l - 1)])
            ELSE Nothing
       ELSE Nothing

try_parse_function_type(stmt) ==
    LET l == Len(stmt)
        braces == {i \in 1..l : stmt[i] = "(" \/ stmt[i] = ")"}
    IN IF l >= 1 /\ stmt[l] = ")" /\ Cardinality(braces) = 4
       THEN Some(braces)
       ELSE Nothing

try_parse_decl(stmt) ==
    IF Len(stmt) >= 1 /\ stmt[1] \in {"__pragma", "__declspec"}
    THEN Some(stmt) ELSE Nothing

try_parse_extern(stmt) ==
    IF Len(stmt) >= 1 /\ stmt[1] = "extern"
    THEN Some(Tail(stmt)) ELSE Nothing

\* HashMap::insert
insert(t, name, def) ==
    [k \in DOMAIN t \cup {name} |-> IF k = name THEN def ELSE t[k]]

\* what a call of parse_statement leaves: the catalog, the recognizer that
\* matched, and whether the call panicked
Handled(t, as) == [types |-> t, as |-> as, panic |-> FALSE]

parse_statement(stmt0, t) ==
    LET l    == Len(stmt0)
        stmt == IF l >= 1 /\ stmt0[l] = ";" THEN Slice(stmt0, 0, l - 1) ELSE stmt0
        td   == try_parse_typedef(stmt)
    IN IF td.some
       THEN LET name    == td.v.name
                typedef == td.v.typedef
            IN IF try_parse_struct(typedef).some
               THEN LET ms == parse_members(try_parse_struct(typedef).v.body)
                    IN IF ms.panic THEN [types |-> t, as |-> "struct", panic |-> TRUE]
                       ELSE Handled(insert(t, name, Struct(ms.v)), "struct")
               ELSE IF try_parse_enum(typedef).some
               THEN LET vs == parse_values(try_parse_enum(typedef).v.body)
                    IN Handled(insert(t, name, Enum(vs.v)), "enum")
               ELSE IF try_parse_function_type(Tail(stmt)).some
               THEN Handled(t, "function_type")
               ELSE Handled(insert(t, name, Alias(join(typedef))), "alias")
       ELSE IF try_parse_struct(stmt).some THEN Handled(t, "bare_struct")
       ELSE IF try_parse_function(stmt).panic
            THEN [types |-> t, as |-> "function", panic |-> TRUE]
       ELSE IF try_parse_function(stmt).some THEN Handled(t, "function")
       ELSE IF try_parse_decl(stmt).some THEN Handled(t, "decl")
       ELSE IF try_parse_extern(stmt).some THEN Handled(t, "extern")
       ELSE Handled(t, "unrecognized")

\* ------------------------------------------------------------------------
\* The segmenter: the for-loop of parse (main.rs 375-404)
\* ------------------------------------------------------------------------
Openers == {"{", "[", "("}
Closers == {"}", "]", ")"}

\* the token the loop takes next, and the buffer after statement.push(token)
Token  == input[consumed + 1]
Pushed == Append(statement, Token)

\* the balance after the match arm of the token
BalanceAfter ==
    IF Token \in Openers THEN balance + 1
    ELSE IF Token \in Closers THEN balance - 1
    ELSE balance

\* the arms that call parse_statement
Completes ==
    \/ Token \in Closers /\ balance - 1 = 0 /\ Pushed[1] \in {"__pragma", "__declspec"}
    \/ Token = ";" /\ balance = 0

\* one iteration that only buffers the token
ParsePush ==
    /\ psState = "loop"
    /\ consumed < Len(input)
    /\ ~Completes
    /\ statement' = Pushed
    /\ balance' = BalanceAfter
    /\ consumed' = consumed + 1
    /\ UNCHANGED <<input, produced, psState, tokVars, types, lookupVars>>

\* one iteration that completes a statement: parse_statement, then clear
ParseStatement ==
    /\ psState = "loop"
    /\ consumed < Len(input)
    /\ Completes
    /\ ~parse_statement(Pushed, types).panic
    /\ types' = parse_statement(Pushed, types).types
    /\ produced' = Append(produced, [stmt |-> Pushed, as |-> parse_statement(Pushed, types).as])
    /\ statement' = <<>>
    /\ balance' = BalanceAfter
    /\ consumed' = consumed + 1
    /\ UNCHANGED <<input, psState, tokVars, lookupVars>>

\* one iteration in which parse_statement panics
ParsePanic ==
    /\ psState = "loop"
    /\ consumed < Len(input)
    /\ Completes
    /\ parse_statement(Pushed, types).panic
    /\ produced' = Append(produced, [stmt |-> Pushed, as |-> "panic"])
    /\ statement' = Pushed
    /\ balance' = BalanceAfter
    /\ consumed' = consumed + 1
    /\ psState' = "abort"
    /\ UNCHANGED <<input, tokVars, types, lookupVars>>

\* the token stream is exhausted: Ok(types)
ParseReturn ==
    /\ psState = "loop"
    /\ consumed = Len(input)
    /\ psState' = "returned"
    /\ UNCHANGED <<input, consumed, balance, statement, produced, tokVars, types, lookupVars>>

ParseNext ==
    \/ ParsePush
    \/ ParseStatement
    \/ ParsePanic
    \/ ParseReturn

\* the token streams the loop is run on
SegAlphabet  == {"x", ";", "{", "}", "(", ")", "__pragma", "typedef"}
BodyAlphabet == {"int", "a", ";", "[", "]", "{", "}"}
MidAlphabet  == {"int", "f", "(", ")", "[", "]", "*"}

ExampleBodies ==
    { <<"int", "a", "[", "3", "]", ";">>,
      <<"int", "a", "[", "2", "]", "[", "3", "]", ";">>,
      <<"Bar", "b", ";", "uint32_T", "n", ";">>,
      <<"struct", "{", "int", "a", ";", "}", "in", ";", "int", "c", ";">> }
ExampleMids ==
    { <<"int", "a", "[", "3", "]">>,
      <<"int", "f", "(", "int", ")">>,
      <<"int", "(", "*", "f", ")", "(", "int", ")">>,
      <<"void", "(", "*", "f", ")", "(", "int", "(", "*", ")", "(", "int", ")", ")">>,
      <<"enum", "{", "A", "=", "1", ",", "B", "}", "E">>,
      <<"struct", "tag", "{", "int", "a", ";", "}", "Foo">> }
ExampleStreams ==
    { <<"extern", "int", "x", ";">>,
      <<"int", "f", "(", "int", "a", ")", ";">>,
      <<"struct", "{", "int", "a", ";", "}", ";">>,
      <<"__declspec", "(", "x", ")", "int", "f", "(", ")", ";">>,
      <<"typedef", "int", "T", ";", "int", "f", "(", ")", "{", "}">> }

StructBodies(n) == Texts(BodyAlphabet, n) \cup ExampleBodies
TypedefMids(n)  == Texts(MidAlphabet, n) \cup ExampleMids

TypedefStruct(body) == <<"typedef", "struct", "{">> \o body \o <<"}", "Foo", ";">>
Typedef(mid)        == <<"typedef">> \o mid \o <<";">>

\* free streams of at most seg tokens, typedef struct statements with at
\* most body tokens in the body, typedef statements with at most mid tokens
ParseInputs(seg, body, mid) ==
    Texts(SegAlphabet, seg) \cup ExampleStreams
        \cup {TypedefStruct(b) : b \in StructBodies(body)}
        \cup {Typedef(m) : m \in TypedefMids(mid)}

ParseInit ==
    /\ TokIdle
    /\ input \in ParseInputs(MaxSegLen, MaxBodyLen, MaxMidLen)
    /\ consumed = 0
    /\ balance = 0
    /\ statement = <<>>
    /\ produced = <<>>
    /\ psState = "loop"
    /\ types = <<>>
    /\ LookupIdle

ParseSpec == ParseInit /\ [][ParseNext]_vars

\* ------------------------------------------------------------------------
\* Bounds
\* ------------------------------------------------------------------------
MaxRefs  == 3     \* struct members in the whole catalog
MaxDepth == 6     \* cap of the lookup call stack (never reached by the code)

\* ------------------------------------------------------------------------
\* Catalogs parse can return (inputs of LookupSpec)
\* ------------------------------------------------------------------------
MemberTypes == {"Foo", "Bar", "uint32_T", "int"}
\* the type and dimension of a member; its identifier is its place
MemberPool  == {Member(None, t, NoDims) : t \in MemberTypes}
                 \cup {Member(None, "int", "3")}
Idents      == <<"a", "b", "c", "d", "e", "f">>
Absent      == [kind |-> "Absent", alias |-> None, values |-> <<>>, members |-> <<>>]
LeafDefs    == {Alias("int"), Enum(<<Value("A", "1"), Value("B", None)>>)}
DefsWith(n) == IF n = 0 THEN {Absent, Struct(<<>>)} \cup LeafDefs
               ELSE {Struct([i \in 1..n |-> [ms[i] EXCEPT !.ident = Idents[i]]]) :
                        ms \in [1..n -> MemberPool]}

MkCatalog(df, db, du) ==
    LET d == [k \in {"Foo", "Bar", "uint32_T"} |->
                 CASE k = "Foo" -> df [] k = "Bar" -> db [] OTHER -> du]
    IN [k \in {n \in {"Foo", "Bar", "uint32_T"} : d[n] # Absent} |-> d[k]]

\* ------------------------------------------------------------------------
\* lookup (main.rs 408-450), one frame of the call stack per active call
\* ------------------------------------------------------------------------
Frame(n)  == [name |-> n, stage |-> "entry", next |-> 1]
Top       == stack[Len(stack)]
Pop       == Front(stack)

VisitedNever(name) == FALSE
\* known.contains(name)
Visited(name) == name \in known

MarkVisitedForgets(name) == known
\* known.insert(name.into())
MarkVisited(name) == known \cup {name}

MemberTargetIdent(m) == m.ident
\* the argument of the recursive call: &member.type_
MemberTarget(m) == m.type_

MissResultTrue == TRUE
\* the value returned when types.get(name) is None
MissResult == FALSE

\* the println! calls, one event each
EmitAlias(name, a)   == [kind |-> "alias",  name |-> name, text |-> a, fields |-> <<>>]
EmitEnum(name, vs)   == [kind |-> "enum",   name |-> name, text |-> None,
                         fields |-> [i \in 1..Len(vs) |->
                                       [ident |-> vs[i].ident, type_ |-> None, dims |-> NoDims,
                                        value |-> vs[i].value]]]
EmitStruct(name, ms) == [kind |-> "struct", name |-> name, text |-> None,
                         fields |-> [i \in 1..Len(ms) |->
                                       [ident |-> ms[i].ident, type_ |-> ms[i].type_,
                                        dims |-> ms[i].dims, value |-> None]]]
EmitNotFound(name)   == [kind |-> "notfound", name |-> name, text |-> None, fields |-> <<>>]

\* a call returns v; guard says whether it returned at the visited check
Return(v, guard) ==
    /\ stack'  = Pop
    /\ result' = [name |-> Top.name, value |-> v, guard |-> guard]

\* main.rs 458-461: the seed table is inserted, the visited set created
MainSeed ==
    /\ pc = "seed"
    /\ types' = Seeded(types)
    /\ known' = {}
    /\ pc' = "keys"
    /\ UNCHANGED <<tokVars, parseVars, out, stack, iterated, result, passes>>

\* main.rs 469-470: for k in types.keys() { lookup(k, ...) }, in any order
MainCall ==
    /\ pc = "keys"
    /\ stack = <<>>
    /\ \E k \in DOMAIN types \ iterated :
         /\ stack' = <<Frame(k)>>
         /\ iterated' = iterated \cup {k}
    /\ UNCHANGED <<tokVars, parseVars, types, known, out, result, passes, pc>>

\* main.rs 471-473: the loop is over
MainExit ==
    /\ pc = "keys"
    /\ stack = <<>>
    /\ iterated = DOMAIN types
    /\ pc' = "done"
    /\ UNCHANGED <<tokVars, parseVars, types, known, out, stack, iterated, result, passes>>

\* main.rs 409-411
LookupKnown ==
    /\ stack # <<>>
    /\ Top.stage = "entry"
    /\ Visited(Top.name)
    /\ Return(TRUE, TRUE)
    /\ UNCHANGED <<tokVars, parseVars, types, known, out, iterated, passes, pc>>

\* main.rs 413-419, 445
LookupAlias ==
    /\ stack # <<>>
    /\ Top.stage = "entry"
    /\ ~Visited(Top.name)
    /\ Top.name \in DOMAIN types
    /\ types[Top.name].kind = "Alias"
    /\ known' = MarkVisited(Top.name)
    /\ out' = Append(out, EmitAlias(Top.name, types[Top.name].alias))
    /\ passes' = passes + 1
    /\ Return(TRUE, FALSE)
    /\ UNCHANGED <<tokVars, parseVars, types, iterated, pc>>

\* main.rs 413-415, 420-429, 445
LookupEnum ==
    /\ stack # <<>>
    /\ Top.stage = "entry"
    /\ ~Visited(Top.name)
    /\ Top.name \in DOMAIN types
    /\ types[Top.name].kind = "Enum"
    /\ known' = MarkVisited(Top.name)
    /\ out' = Append(out, EmitEnum(Top.name, types[Top.name].values))
    /\ passes' = passes + 1
    /\ Return(TRUE, FALSE)
    /\ UNCHANGED <<tokVars, parseVars, types, iterated, pc>>

\* main.rs 413-415, 430: the struct branch is entered, its member loop starts
LookupStruct ==
    /\ stack # <<>>
    /\ Top.stage = "entry"
    /\ ~Visited(Top.name)
    /\ Top.name \in DOMAIN types
    /\ types[Top.name].kind = "Struct"
    /\ known' = MarkVisited(Top.name)
    /\ passes' = passes + 1
    /\ stack' = [stack EXCEPT ![Len(stack)].stage = "members"]
    /\ UNCHANGED <<tokVars, parseVars, types, out, iterated, result, pc>>

\* main.rs 431-433: one iteration of the member loop, the recursive call
LookupMember ==
    /\ stack # <<>>
    /\ Top.stage = "members"
    /\ Top.next <= Len(types[Top.name].members)
    /\ Len(stack) < MaxDepth
    /\ stack' = Append([stack EXCEPT ![Len(stack)].next = Top.next + 1],
                       Frame(MemberTarget(types[Top.name].members[Top.next])))
    /\ UNCHANGED <<tokVars, parseVars, types, known, out, iterated, result, passes, pc>>

\* main.rs 435-445: the member loop is over, the struct is printed
LookupStructEmit ==
    /\ stack # <<>>
    /\ Top.stage = "members"
    /\ Top.next > Len(types[Top.name].members)
    /\ out' = Append(out, EmitStruct(Top.name, types[Top.name].members))
    /\ Return(TRUE, FALSE)
    /\ UNCHANGED <<tokVars, parseVars, types, known, iterated, passes, pc>>

\* main.rs 413-415, 446-449
LookupNotFound ==
    /\ stack # <<>>
    /\ Top.stage = "entry"
    /\ ~Visited(Top.name)
    /\ Top.name \notin DOMAIN types
    /\ known' = MarkVisited(Top.name)
    /\ out' = Append(out, EmitNotFound(Top.name))
    /\ passes' = passes + 1
    /\ Return(MissResult, FALSE)
    /\ UNCHANGED <<tokVars, parseVars, types, iterated, pc>>

LookupNext ==
    \/ MainSeed
    \/ MainCall
    \/ MainExit
    \/ LookupKnown
    \/ LookupAlias
    \/ LookupEnum
    \/ LookupStruct
    \/ LookupMember
    \/ LookupStructEmit
    \/ LookupNotFound

\* main after parse returned Ok(types): the catalog is one parse can build
LookupInit ==
    /\ TokIdle
    /\ ParseIdle
    /\ \E lf \in 0..MaxRefs : \E lb \in 0..(MaxRefs - lf) :
         \E df \in DefsWith(lf) : \E db \in DefsWith(lb) :
           \E du \in {Absent, Alias("unsigned~int")} :
             types = MkCatalog(df, db, du)
    /\ known = {}
    /\ out = <<>>
    /\ stack = <<>>
    /\ iterated = {}
    /\ result = [name |-> None, value |-> TRUE, guard |-> FALSE]
    /\ passes = 0
    /\ pc = "seed"

LookupSpec == LookupInit /\ [][LookupNext]_vars

\* the program is sequential: a step that can be taken is taken
LookupFairSpec == LookupSpec /\ WF_vars(LookupNext)


\* ------------------------------------------------------------------------
\* Properties of the resolver
\* ------------------------------------------------------------------------
\* positions of out where the declaration of n was printed
DeclIdx(n)  == {i \in 1..Len(out) : out[i].name = n /\ out[i].kind # "notfound"}
\* positions of out where "Not found: n" was printed
DiagIdx(n)  == {i \in 1..Len(out) : out[i].name = n /\ out[i].kind = "notfound"}
StructIdx   == {i \in 1..Len(out) : out[i].kind = "struct"}
FieldTypes(e) == {e.fields[j].type_ : j \in 1..Len(e.fields)}

\* the names the member types of a struct entry refer to
Refs(n) == IF n \in DOMAIN types /\ types[n].kind = "Struct"
           THEN {types[n].members[j].type_ : j \in 1..Len(types[n].members)}
           ELSE {}
RECURSIVE RefClosure(_)
RefClosure(S) == LET more == S \cup UNION {Refs(n) : n \in S}
                 IN IF more = S THEN S ELSE RefClosure(more)
\* b is reached from a through one or more member references
Reaches(a, b) == b \in RefClosure(Refs(a))
AllNames == DOMAIN types \cup UNION {Refs(n) : n \in DOMAIN types}

\* C1 as stated: for every emitted struct S and every member whose base type
\* T is a catalog key other than S, the declaration of T was emitted before
\* the declaration of S (cyclic struct graphs included).
C1_DependencyFirst ==
    \A i \in StructIdx : \A T \in FieldTypes(out[i]) :
        (T \in DOMAIN types /\ T # out[i].name)
            => \E k \in DeclIdx(T) : k < i

\* C1 amended: the declaration of T is emitted before the declaration of S
\* unless S is itself reached from T through struct member references (S and
\* T lie on a cycle of the struct graph).
C1_DependencyFirstUnlessCycle ==
    \A i \in StructIdx : \A T \in FieldTypes(out[i]) :
        (T \in DOMAIN types /\ T # out[i].name)
            => \/ \E k \in DeclIdx(T) : k < i
               \/ Reaches(T, out[i].name)

\* the run is over, Foo and Bar refer to each other, and Foo also has a
\* member of the seeded alias type, which was emitted before it
C1_Witness ==
    /\ pc = "done"
    /\ Reaches("Foo", "Bar") /\ Reaches("Bar", "Foo")
    /\ "uint32_T" \in Refs("Foo")
    /\ \E i \in DeclIdx("Foo") : \E k \in DeclIdx("uint32_T") : k < i

\* C2: the declaration of each name is emitted at most once, and once lookup
\* has been called for every catalog key and has returned, the declaration
\* of every catalog key has been emitted exactly once.
C2_EmittedOnce ==
    /\ \A n \in AllNames : Cardinality(DeclIdx(n)) <= 1
    /\ (pc # "seed" /\ iterated = DOMAIN types /\ stack = <<>>)
          => \A k \in DOMAIN types : Cardinality(DeclIdx(k)) = 1

\* the run is over and a struct with two members of the same catalog type,
\* looked up twice, has been emitted
C2_Witness ==
    /\ pc = "done"
    /\ \E i \in StructIdx :
         /\ Len(out[i].fields) >= 2
         /\ out[i].fields[1].type_ = out[i].fields[2].type_
         /\ out[i].fields[1].type_ \in DOMAIN types
         /\ Cardinality(DeclIdx(out[i].fields[1].type_)) = 1

\* every emitted struct is printed with all its members, type text unchanged
StructsEmittedWhole ==
    \A i \in StructIdx :
        /\ out[i].name \in DOMAIN types
        /\ Len(out[i].fields) = Len(types[out[i].name].members)
        /\ \A j \in 1..Len(out[i].fields) :
             /\ out[i].fields[j].ident = types[out[i].name].members[j].ident
             /\ out[i].fields[j].type_ = types[out[i].name].members[j].type_
             /\ out[i].fields[j].dims  = types[out[i].name].members[j].dims

\* one "Not found" for every absent member type of an emitted struct
OneDiagnosticPerAbsentType ==
    /\ \A n \in AllNames : Cardinality(DiagIdx(n)) <= 1
    /\ \A i \in StructIdx : \A T \in FieldTypes(out[i]) :
         T \notin DOMAIN types => Cardinality(DiagIdx(T)) = 1

\* C3 as stated: a struct with a member of an absent type gets exactly one
\* "Not found" for that type name, the lookup of the absent name returns
\* failure, and the struct is still emitted with all members unchanged.
C3_AbsentMember ==
    /\ OneDiagnosticPerAbsentType
    /\ (pc # "seed" /\ result.name # None /\ result.name \notin DOMAIN types)
          => result.value = FALSE
    /\ StructsEmittedWhole

\* C3 amended: the first lookup of an absent name prints the one "Not found"
\* of that name and returns failure; a later lookup of the same name returns
\* at the visited check, with success and no second diagnostic.
C3_AbsentMemberFirstLookup ==
    /\ OneDiagnosticPerAbsentType
    /\ (pc # "seed" /\ result.name # None /\ result.name \notin DOMAIN types)
          => /\ result.value = result.guard
             /\ Cardinality(DiagIdx(result.name)) = 1
    /\ StructsEmittedWhole

\* the run is over, a struct with two members of the absent type int was
\* emitted, and int has one diagnostic
C3_Witness ==
    /\ pc = "done"
    /\ "int" \notin DOMAIN types
    /\ Cardinality(DiagIdx("int")) = 1
    /\ \E i \in StructIdx :
         /\ Len(out[i].fields) >= 2
         /\ out[i].fields[1].type_ = "int"
         /\ out[i].fields[2].type_ = "int"

\* a name is in the visited set before its members are looked up, and the
\* calls that passed the visited check are no more than the names there are
MarkedBeforeRecursing ==
    /\ \A d \in 1..Len(stack) : stack[d].stage = "members" => stack[d].name \in known
    /\ pc # "seed" => passes <= Cardinality(AllNames)
    /\ Len(stack) < MaxDepth

\* C9: lookup terminates on every catalog, cycles and self-references
\* included: a name is marked visited before the recursive calls for its
\* members, the calls passing the visited check are bounded by the distinct
\* names, and the run over all keys finishes.
C9_LookupTerminates == [](MarkedBeforeRecursing) /\ <>(pc = "done")

\* the run is over for a catalog in which Foo has a member of type Foo and
\* Bar and Foo refer to each other
C9_Witness ==
    /\ pc = "done"
    /\ "Foo" \in Refs("Foo")
    /\ "Bar" \in Refs("Foo") /\ "Foo" \in Refs("Bar")
    /\ passes = Cardinality(AllNames)

\* ------------------------------------------------------------------------
\* Properties of the tokenizer
\* ------------------------------------------------------------------------
\* the text of a yielded slice
TokenText(t) == Slice(line, t.last, t.pos)
TokenTexts   == [i \in 1..Len(tokens) |-> TokenText(tokens[i])]

\* the operators of the tokenizer's contract, spelled out
SpecOperators ==
    { <<".">>, <<".", ".", ".">>,
      <<"*">>, <<"*", "=">>, <<"^">>, <<"^", "=">>, <<"!">>, <<"!", "=">>,
      <<"=">>, <<"=", "=">>, <<"/">>, <<"/", "=">>,
      <<"&">>, <<"&", "&">>, <<"&", "=">>,
      <<"|">>, <<"|", "|">>, <<"|", "=">>,
      <<"+">>, <<"+", "+">>, <<"+", "=">>,
      <<"<">>, <<"<", "<">>, <<"<", "<", "=">>, <<"<", "=">>,
      <<">">>, <<">", ">">>, <<">", ">", "=">>, <<">", "=">>,
      <<"-">>, <<"-", ">">>, <<"-", "-">>, <<"-", "=">> }
OperatorChars == {o[1] : o \in SpecOperators}

\* operator o is written in the text from position l (0-based) on
WrittenAt(o, l) == l + Len(o) <= Len(line) /\ Slice(line, l, l + Len(o)) = o

\* a text of identifiers, numbers, blanks, punctuation and operator characters
IsOperatorText ==
    \A i \in 1..Len(line) :
        \/ line[i] \in IdentChars \cup PunctChars \cup OperatorChars
        \/ is_whitespace(line[i])

\* C5: on a text built from identifiers and the operator characters every
\* token that starts at an operator character is the longest operator of the
\* list written there, punctuation is always a one-character token, and the
\* five example texts give the token lists of the contract.
C5_LongestOperator ==
    IsOperatorText =>
        /\ tkState # "abort"
        /\ \A i \in 1..Len(tokens) :
             LET t == tokens[i]
                 c == line[t.last + 1]
             IN /\ c \in OperatorChars =>
                     /\ TokenText(t) \in SpecOperators
                     /\ \A o \in SpecOperators :
                          WrittenAt(o, t.last) => Len(o) <= Len(TokenText(t))
                /\ c \in PunctChars => TokenText(t) = <<c>>
        /\ tkState = "end" =>
             /\ line = <<"a", ",", "b">>
                  => TokenTexts = << <<"a">>, <<",">>, <<"b">> >>
             /\ line = <<"x", "-", ">", "y">>
                  => TokenTexts = << <<"x">>, <<"-", ">">>, <<"y">> >>
             /\ line = <<"a", "<", "<", "=", "b">>
                  => TokenTexts = << <<"a">>, <<"<", "<", "=">>, <<"b">> >>
             /\ line = <<"a", "<", "b">>
                  => TokenTexts = << <<"a">>, <<"<">>, <<"b">> >>
             /\ line = <<"a", "<", "<", "b">>
                  => TokenTexts = << <<"a">>, <<"<", "<">>, <<"b">> >>

\* "a<<=b" has been tokenized to the end, in three tokens
C5_Witness ==
    /\ tkState = "end"
    /\ line = <<"a", "<", "<", "=", "b">>
    /\ Len(tokens) = 3
    /\ TokenText(tokens[2]) = <<"<", "<", "=">>

\* C7: tokenizing, segmenting and classifying run to the end of every input
\* without aborting; an unterminated literal is reported and scanning
\* continues, and no statement makes a recognizer abort.
C7_NeverAborts == tkState # "abort" /\ psState # "abort"

\* the backslashes written directly before position i (1-based), not
\* counting anything at or before position lo
RECURSIVE BackslashRun(_, _)
BackslashRun(i, lo) ==
    IF i > lo /\ line[i] = "\\" THEN 1 + BackslashRun(i - 1, lo) ELSE 0

\* the closing quotes of the literal opened at position l (0-based): a
\* matching quote preceded by an even number of backslashes
ClosingQuotes(l) ==
    {e \in (l + 2)..Len(line) :
        /\ line[e] = line[l + 1]
        /\ BackslashRun(e - 1, l + 1) % 2 = 0}
Min(S) == CHOOSE x \in S : \A y \in S : x <= y

\* C8: a literal token ends at the first matching quote preceded by an even
\* number of backslashes; so "\\" (an escaped backslash, then the closing
\* quote) ends at that quote.
C8_EscapeExactlyNext ==
    /\ \A i \in 1..Len(tokens) :
         line[tokens[i].last + 1] \in {"\"", "'"} =>
             /\ ClosingQuotes(tokens[i].last) # {}
             /\ tokens[i].pos = Min(ClosingQuotes(tokens[i].last))
    /\ (tkState = "abort" /\ line[last + 1] \in {"\"", "'"})
          => ClosingQuotes(last) = {}

\* ------------------------------------------------------------------------
\* Properties of the segmenter and the classifier
\* ------------------------------------------------------------------------
\* the tokens of the statements handed to parse_statement, in order
RECURSIVE Flatten(_)
Flatten(ps) == IF Len(ps) = 0 THEN <<>> ELSE ps[1].stmt \o Flatten(Tail(ps))

\* the nesting balance is never negative and ends at zero
RECURSIVE BalancedFrom(_, _)
BalancedFrom(s, b) ==
    IF Len(s) = 0 THEN b = 0
    ELSE LET b1 == IF s[1] \in Openers THEN b + 1
                   ELSE IF s[1] \in Closers THEN b - 1 ELSE b
         IN b1 >= 0 /\ BalancedFrom(Tail(s), b1)
Balanced(s) == BalancedFrom(s, 0)

\* C4: for a balanced token sequence the statements handed to
\* parse_statement, concatenated in order, are the input: no token is
\* dropped, duplicated or reordered, the tokens after the last top-level
\* terminator included.
C4_NoTokenLost ==
    (psState = "returned" /\ Balanced(input)) => Flatten(produced) = input

\* the fields of a struct body: the pieces between the ';' that are not
\* inside inner braces
RECURSIVE TopLevelFields(_, _, _)
TopLevelFields(s, depth, field) ==
    IF Len(s) = 0 THEN <<field>>
    ELSE IF s[1] = ";" /\ depth = 0
         THEN <<field>> \o TopLevelFields(Tail(s), 0, <<>>)
    ELSE TopLevelFields(Tail(s),
                        IF s[1] = "{" THEN depth + 1
                        ELSE IF s[1] = "}" THEN depth - 1 ELSE depth,
                        Append(field, s[1]))

\* the index (1-based) of the final ']' of a field
FinalClose(f) == CHOOSE q \in 1..Len(f) :
                    f[q] = "]" /\ \A r \in (q + 1)..Len(f) : f[r] # "]"

\* the member the contract gives a non-empty field
ContractMember(f) ==
    IF "[" \in Range(f)
    THEN LET p == position(f, "[") + 1
         IN Member(f[p - 1], join(SubSeq(f, 1, p - 2)),
                   join(SubSeq(f, p + 1, FinalClose(f) - 1)))
    ELSE Member(f[Len(f)], join(SubSeq(f, 1, Len(f) - 1)), NoDims)

ContractMembers(body) ==
    LET fs  == TopLevelFields(body, 0, <<>>)
        ne  == {i \in 1..Len(fs) : fs[i] # <<>>}
        nth(k) == CHOOSE i \in ne : Cardinality({j \in ne : j < i}) = k - 1
    IN [k \in 1..Cardinality(ne) |-> ContractMember(fs[nth(k)])]

\* a token that is neither punctuation, an operator nor a number
IsIdentifierToken(t) == t \notin PunctChars \cup {"*", "=", "1", "2", "3"}

\* each kind of bracket is balanced on its own
RECURSIVE KindBalancedFrom(_, _, _, _)
KindBalancedFrom(s, o, c, b) ==
    IF Len(s) = 0 THEN b = 0
    ELSE LET b1 == IF s[1] = o THEN b + 1 ELSE IF s[1] = c THEN b - 1 ELSE b
         IN b1 >= 0 /\ KindBalancedFrom(Tail(s), o, c, b1)
WellNested(s) ==
    /\ KindBalancedFrom(s, "{", "}", 0)
    /\ KindBalancedFrom(s, "[", "]", 0)
    /\ KindBalancedFrom(s, "(", ")", 0)

\* a body the contract speaks of: balanced, every field with a '[' ends with
\* ']' and has an identifier before the '[', every other field ends with an
\* identifier
ContractBody(body) ==
    /\ Balanced(body)
    /\ WellNested(body)
    /\ LET fs == TopLevelFields(body, 0, <<>>)
       IN \A i \in 1..Len(fs) :
            /\ ("[" \in Range(fs[i])) =>
                 /\ position(fs[i], "[") > 0
                 /\ IsIdentifierToken(fs[i][position(fs[i], "[")])
                 /\ fs[i][Len(fs[i])] = "]"
            /\ ("[" \notin Range(fs[i]) /\ fs[i] # <<>>) =>
                 IsIdentifierToken(fs[i][Len(fs[i])])

IsTypedefStruct(s) ==
    /\ Len(s) >= 6
    /\ SubSeq(s, 1, 3) = <<"typedef", "struct", "{">>
    /\ SubSeq(s, Len(s) - 2, Len(s)) = <<"}", "Foo", ";">>
BodyOf(s) == SubSeq(s, 4, Len(s) - 3)

\* C6: typedef struct { body } Name ; registers Struct(Name) with one member
\* per non-empty field of the body split at its top-level ';' only, each
\* with the identifier, base type and dimension the contract gives it.
C6_StructMembers ==
    (psState \in {"returned", "abort"} /\ IsTypedefStruct(input) /\ ContractBody(BodyOf(input)))
        => /\ psState = "returned"
           /\ "Foo" \in DOMAIN types
           /\ types["Foo"] = Struct(ContractMembers(BodyOf(input)))

\* C10: every key of the catalog is an identifier token, so a typedef
\* statement whose last token before ';' is not an identifier registers
\* nothing.
C10_KeysAreIdentifiers ==
    /\ \A k \in DOMAIN types : IsIdentifierToken(k)
    /\ (Len(produced) = 1 /\ produced[1].stmt[1] = "typedef" /\ Len(produced[1].stmt) >= 3
          /\ ~IsIdentifierToken(produced[1].stmt[Len(produced[1].stmt) - 1]))
          => DOMAIN types = {}

=============================================================================
